---- MODULE Spec2Model ----
(***************************************************************************)
(* Model of the file-ingestion pipeline of tap_s3_csv/sync.py:             *)
(* sync_stream and the resolution of one object by sync_table_file,        *)
(* handle_file, sync_gz_file, sync_compressed_file, sync_csv_file and      *)
(* sync_jsonl_file, and get_source_type_for_updatecol_map.                 *)
(*                                                                         *)
(* Strings (object keys, file names, extensions) are sequences of one      *)
(* character strings, so that split, lower, endswith and the ordering of   *)
(* keys are computed as Python computes them.                              *)
(***************************************************************************)
EXTENDS Integers, Sequences, FiniteSets, TLC

VARIABLES
    store,                \* the objects under the table's search scope
    bookmark,             \* persisted state: the table's 'modified_since'
    pc,                   \* position of the process in sync_stream
    run,                  \* number of the process run
    start_bookmark,       \* sync_stream: local bookmark (line 30)
    s3_files,             \* sync_stream: the enumerator's result (line 39)
    files,                \* sync_stream: the rest of the sorted loop (line 51)
    inflight,             \* result of sync_table_file for the object in flight
    emitted,              \* number of batches of the object in flight written so far
    log,                  \* this run's calls of write_records and write_state
    skipped_files_count,  \* s3.skipped_files_count
    records_streamed,     \* sync_stream: records_streamed (line 43)
    prev,                 \* how the previous run ended
    config,               \* the tap's configuration
    source_type_map,      \* the source types the schema's metadata gives
    source_type_for_updatecol_map  \* result of get_source_type_for_updatecol_map

(* The configuration and the map derived from it feed the Transformer only. *)
mapvars == <<config, source_type_map, source_type_for_updatecol_map>>

vars == <<store, bookmark, pc, run, start_bookmark, s3_files, files, inflight,
          emitted, log, skipped_files_count, records_streamed, prev, mapvars>>

-----------------------------------------------------------------------------
(* Bounds of the model. *)

MaxObjects == 2
MaxTime == 3
MaxRuns == 2
MaxRows == 250
MaxUpdates == 2

(* sync.py line 24 *)
BUFFER_SIZE == 100

-----------------------------------------------------------------------------
(* Python strings. *)

UpperLetters == <<"A","B","C","D","E","F","G","H","I","J","K","L","M",
                  "N","O","P","Q","R","S","T","U","V","W","X","Y","Z">>
LowerLetters == <<"a","b","c","d","e","f","g","h","i","j","k","l","m",
                  "n","o","p","q","r","s","t","u","v","w","x","y","z">>

(* The characters used, in code point order. *)
Alphabet == <<".", "/", "0", "1", "2", "3">> \o UpperLetters \o LowerLetters

Ord(c) == CHOOSE i \in 1..Len(Alphabet) : Alphabet[i] = c

LowerChar(c) ==
    IF \E i \in 1..26 : UpperLetters[i] = c
    THEN LowerLetters[CHOOSE i \in 1..26 : UpperLetters[i] = c]
    ELSE c

(* str.lower() *)
lower(s) == [i \in 1..Len(s) |-> LowerChar(s[i])]

(* s.split(".")[-1] *)
split_last(s) ==
    LET dots == {i \in 1..Len(s) : s[i] = "."}
        last == IF dots = {} THEN 0 ELSE CHOOSE i \in dots : \A j \in dots : j <= i
    IN  SubSeq(s, last + 1, Len(s))

(* s.endswith(suffix) *)
endswith(s, suffix) ==
    /\ Len(suffix) <= Len(s)
    /\ SubSeq(s, Len(s) - Len(suffix) + 1, Len(s)) = suffix

(* a < b on Python strings: lexicographic by code point *)
str_lt(a, b) ==
    LET n == IF Len(a) < Len(b) THEN Len(a) ELSE Len(b)
        diff == {i \in 1..n : a[i] # b[i]}
    IN  IF diff = {} THEN Len(a) < Len(b)
        ELSE LET d == CHOOSE i \in diff : \A j \in diff : i <= j
             IN  Ord(a[d]) < Ord(b[d])

-----------------------------------------------------------------------------
(* What one object's processing does: the batches written to the sink, the *)
(* increments of s3.skipped_files_count and the skip warnings logged, up   *)
(* to the point reached.                                                   *)

NoEffect == [emits |-> <<>>, skips |-> 0, warns |-> <<>>]

(* return n *)
Return(eff, n) ==
    [ret |-> n, exc |-> "none", emits |-> eff.emits, skips |-> eff.skips, warns |-> eff.warns]

(* raise e *)
Raise(eff, e) ==
    [ret |-> 0, exc |-> e, emits |-> eff.emits, skips |-> eff.skips, warns |-> eff.warns]

EffectOf(r) == [emits |-> r.emits, skips |-> r.skips, warns |-> r.warns]

(* LOGGER.warning(...) *)
Warn(eff, why) == [eff EXCEPT !.warns = Append(@, why)]

(* s3.skipped_files_count = s3.skipped_files_count + 1 *)
CountSkipped(eff) == [eff EXCEPT !.skips = @ + 1]

(* messages.write_records(table_name, records_buffer) *)
write_records(eff, records_buffer) == [eff EXCEPT !.emits = Append(@, records_buffer)]

(* transformer.transform(row, ...): one output record per raw row *)
transform(row) == <<"record", row>>

(* The bytes of a file as its lines; a gzip or zip read as text is binary. *)
LinesOf(content) ==
    IF content.type = "text" THEN content.lines ELSE <<[kind |-> "binary", v |-> 0]>>

(* The flush test off by one: a batch of BUFFER_SIZE + 1 records. *)
BufferIsOverfull(records_buffer) == Len(records_buffer) > BUFFER_SIZE

(* len(records_buffer) >= BUFFER_SIZE *)
BufferIsFull(records_buffer) == Len(records_buffer) >= BUFFER_SIZE

-----------------------------------------------------------------------------
(* sync_csv_file, lines 222-281. *)

(* csv_iterator.get_row_iterator(file_handle, table_spec): falsy for a file  *)
(* that has no header line.                                                *)
get_row_iterator(content) ==
    IF content.type = "text" /\ content.lines = <<>>
    THEN [truthy |-> FALSE, rows |-> <<>>]
    ELSE [truthy |-> TRUE, rows |-> LinesOf(content)]

(* timers[...] += ... : the default argument timers={} has no key *)
TimersRaise(timers) == timers = "default"

(* The buffer left as it is after a flush. *)
NotCleared(records_buffer) == records_buffer

(* records_buffer.clear() *)
clear(records_buffer) == <<>>

(* The state of a row loop: the exception raised, if any, and the locals. *)
LoopStart(eff) ==
    [exc |-> "none", records_buffer |-> <<>>, records_synced |-> 0, eff |-> eff]

(* lines 257-270 and 309-318: transform the row, append it, flush a full buffer *)
AcceptRow(loop, row) ==
    LET appended == Append(loop.records_buffer, transform(row))
    IN  IF BufferIsFull(appended)
        THEN [loop EXCEPT !.records_buffer = clear(appended),
                          !.records_synced = @ + Len(appended),
                          !.eff = write_records(@, appended)]
        ELSE [loop EXCEPT !.records_buffer = appended]

(* lines 252-270: one turn of "for row in iterator" of sync_csv_file *)
csv_row(loop, row) ==
    IF row.kind = "binary" THEN [loop EXCEPT !.exc = "UnicodeDecodeError"]
    ELSE IF row.kind = "blank" THEN loop
    ELSE AcceptRow(loop, row.v)

(* "for row in iterator" over rows lo..hi, split in halves; an exception   *)
(* ends the loop.                                                          *)
RECURSIVE csv_rows(_, _, _, _)
csv_rows(iterator, lo, hi, loop) ==
    IF lo > hi THEN loop
    ELSE IF lo = hi THEN csv_row(loop, iterator[lo])
    ELSE LET mid == (lo + hi) \div 2
             half == csv_rows(iterator, lo, mid, loop)
         IN  IF half.exc # "none" THEN half
             ELSE csv_rows(iterator, mid + 1, hi, half)

(* The flush after the loop: "if len(records_buffer) > 0". *)
FinalFlush(records_buffer, records_synced, eff) ==
    IF Len(records_buffer) > 0
    THEN Return(write_records(eff, records_buffer), records_synced + Len(records_buffer))
    ELSE Return(eff, records_synced)

sync_csv_file(content, timers, eff) ==
    LET iterator == get_row_iterator(content)
    IN  IF TimersRaise(timers) THEN Raise(eff, "KeyError")
        ELSE IF ~iterator.truthy
        THEN FinalFlush(<<>>, 0, CountSkipped(Warn(eff, "empty")))
        ELSE LET loop == csv_rows(iterator.rows, 1, Len(iterator.rows), LoopStart(eff))
             IN  IF loop.exc # "none" THEN Raise(loop.eff, loop.exc)
                 ELSE FinalFlush(loop.records_buffer, loop.records_synced, loop.eff)

-----------------------------------------------------------------------------
(* sync_jsonl_file, lines 284-324. *)

(* lines 298-318: one turn of "for row in iterator" of sync_jsonl_file *)
jsonl_row(loop, row) ==
    IF row.kind = "binary" THEN [loop EXCEPT !.exc = "UnicodeDecodeError"]
    ELSE IF row.kind = "blank" THEN loop
    ELSE IF row.kind = "text" THEN [loop EXCEPT !.exc = "JSONDecodeError"]
    ELSE IF row.kind = "emptyobj" THEN loop
    ELSE AcceptRow(loop, row.v)

(* "for row in iterator" over lines lo..hi, split in halves; an exception  *)
(* ends the loop.                                                          *)
RECURSIVE jsonl_rows(_, _, _, _)
jsonl_rows(iterator, lo, hi, loop) ==
    IF lo > hi THEN loop
    ELSE IF lo = hi THEN jsonl_row(loop, iterator[lo])
    ELSE LET mid == (lo + hi) \div 2
             half == jsonl_rows(iterator, lo, mid, loop)
         IN  IF half.exc # "none" THEN half
             ELSE jsonl_rows(iterator, mid + 1, hi, half)

sync_jsonl_file(content, eff) ==
    LET loop == jsonl_rows(LinesOf(content), 1, Len(LinesOf(content)), LoopStart(eff))
    IN  IF loop.exc # "none" THEN Raise(loop.eff, loop.exc)
        ELSE FinalFlush(loop.records_buffer, loop.records_synced, loop.eff)

-----------------------------------------------------------------------------
(* Format resolution: handle_file and sync_gz_file (mutually recursive),   *)
(* sync_compressed_file, sync_table_file.                                  *)

csv_ext == <<"c", "s", "v">>
txt_ext == <<"t", "x", "t">>
jsonl_ext == <<"j", "s", "o", "n", "l">>
gz_ext == <<"g", "z">>
zip_ext == <<"z", "i", "p">>

(* "not extension or s3_path.lower() == extension" *)
WithoutExtension(s3_path, extension) ==
    extension = <<>> \/ lower(s3_path) = extension

RECURSIVE handle_file(_, _, _, _, _)
RECURSIVE sync_gz_file(_, _, _)

(* lines 98-140 *)
handle_file(s3_path, extension, content, timers, eff) ==
    IF WithoutExtension(s3_path, extension)
    THEN Return(CountSkipped(Warn(eff, "no_extension")), 0)
    ELSE IF extension = gz_ext
    THEN sync_gz_file(s3_path, content, eff)
    ELSE IF extension \in {csv_ext, txt_ext}
    THEN sync_csv_file(content, timers, eff)
    ELSE IF extension = jsonl_ext
    THEN LET records == sync_jsonl_file(content, eff)
         IN  IF records.exc = "none" /\ records.ret = 0
             THEN Return(Warn(CountSkipped(EffectOf(records)), "empty"), 0)
             ELSE records
    ELSE IF extension = zip_ext
    THEN Return(CountSkipped(Warn(eff, "nested_compression")), 0)
    ELSE Return(CountSkipped(Warn(eff, "unsupported_extension")), 0)

(* lines 143-181 *)
sync_gz_file(s3_path, content, eff) ==
    IF endswith(s3_path, <<".", "t", "a", "r", ".", "g", "z">>)
    THEN Return(CountSkipped(Warn(eff, "tar_gz")), 0)
    ELSE IF content.type # "gzip"
    THEN Raise(eff, "OSError")
    ELSE IF content.header = "AttributeError"
    THEN Return(CountSkipped(Warn(eff, "no_original_name")), 0)
    ELSE IF content.name # <<>>
    THEN IF endswith(content.name, <<".", "g", "z">>)
         THEN Return(CountSkipped(Warn(eff, "nested_compression")), 0)
         ELSE handle_file(s3_path \o <<"/">> \o content.name,
                          lower(split_last(content.name)), content.inner[1], "default", eff)
    ELSE Raise(eff, "Exception")

(* The loop of sync_compressed_file over the archive's entries from i on. *)
RECURSIVE zip_entries(_, _, _, _, _)
zip_entries(s3_path, decompressed_files, i, zip_records, eff) ==
    IF i > Len(decompressed_files) THEN Return(eff, zip_records)
    ELSE LET decompressed_file == decompressed_files[i]
             extension == lower(split_last(decompressed_file.name))
         IN  IF extension \in {csv_ext, jsonl_ext, gz_ext, txt_ext}
             THEN LET r == handle_file(s3_path \o <<"/">> \o decompressed_file.name,
                                       extension, decompressed_file.content, "default", eff)
                  IN  IF r.exc # "none" THEN r
                      ELSE zip_entries(s3_path, decompressed_files, i + 1,
                                       zip_records + r.ret, EffectOf(r))
             ELSE zip_entries(s3_path, decompressed_files, i + 1, zip_records, eff)

(* lines 184-203 *)
sync_compressed_file(s3_path, content, eff) ==
    IF content.type # "zip" THEN Raise(eff, "BadZipFile")
    ELSE zip_entries(s3_path, content.entries, 1, 0, eff)

(* An except clause that catches every exception. *)
IsAnyException(exc) == exc # "none"

(* An except clause that names json.decoder.JSONDecodeError alone. *)
IsJSONDecodeError(exc) == exc = "JSONDecodeError"

(* "except (UnicodeDecodeError, json.decoder.JSONDecodeError)" *)
IsDecodeError(exc) == exc \in {"UnicodeDecodeError", "JSONDecodeError"}

(* lines 71-94 *)
sync_table_file(s3_path, content, timers) ==
    LET extension == lower(split_last(s3_path))
    IN  IF WithoutExtension(s3_path, extension)
        THEN Return(CountSkipped(Warn(NoEffect, "no_extension")), 0)
        ELSE LET tried ==
                    IF extension = zip_ext
                    THEN sync_compressed_file(s3_path, content, NoEffect)
                    ELSE IF extension \in {csv_ext, gz_ext, jsonl_ext, txt_ext}
                    THEN handle_file(s3_path, extension, content, timers, NoEffect)
                    ELSE Return(Warn(NoEffect, "unsupported_extension"), 0)
             IN  IF IsDecodeError(tried.exc)
                 THEN Return(CountSkipped(Warn(EffectOf(tried), "parsing_failed")), 0)
                 ELSE tried

-----------------------------------------------------------------------------
(* Timestamps are whole time units after 1990-01-01T00:00:00Z. *)

None == <<>>

(* datetime.isoformat() *)
isoformat(t) == <<t>>

(* singer_utils.strptime_with_tz(s) *)
strptime_with_tz(s) == s[1]

(* '1990-01-01T00:00:00Z' *)
DefaultModifiedSince == <<0>>

(* singer.get_bookmark(state, table_name, 'modified_since') *)
get_bookmark(state) == state

(* "bookmark or '1990-01-01T00:00:00Z'" *)
BookmarkOrDefault(b) == IF b = None THEN DefaultModifiedSince ELSE b

-----------------------------------------------------------------------------
(* The object store. *)

Descriptor(o) == [key |-> o.key, last_modified |-> o.last_modified]

(* s3.get_input_files_for_table(config, table_spec, modified_since): the     *)
(* objects of the table modified strictly after the threshold.              *)
get_input_files_for_table(objects, modified_since) ==
    {Descriptor(o) : o \in {x \in objects : x.last_modified > modified_since}}

(* s3.get_file_handle(config, s3_path) *)
get_file_handle(objects, s3_path) ==
    (CHOOSE o \in objects : o.key = s3_path).content

(* A sort by key, descending. *)
SortsAfter(a, b) == str_lt(b.key, a.key)

(* The sort of the original implementation, by last_modified. *)
SortsByModified(a, b) ==
    \/ a.last_modified < b.last_modified
    \/ a.last_modified = b.last_modified /\ str_lt(a.key, b.key)

(* "key=lambda item: item['key']" *)
SortsBefore(a, b) == str_lt(a.key, b.key)

(* sorted(s3_files, key=...) *)
RECURSIVE sorted(_)
sorted(S) ==
    IF S = {} THEN <<>>
    ELSE LET first == CHOOSE x \in S : \A y \in S \ {x} : SortsBefore(x, y)
         IN  <<first>> \o sorted(S \ {first})

Keys(S) == {f.key : f \in S}

KeysOfSeq(q) == {q[i].key : i \in 1..Len(q)}

-----------------------------------------------------------------------------
(* sync_stream, lines 27-68, one process run after another. *)

(* The entries of the log: a batch handed to the sink, a state persisted. *)
WriteRecords(key, records) ==
    [op |-> "write_records", key |-> key, records |-> records, value |-> None]

WriteState(key, value) ==
    [op |-> "write_state", key |-> key, records |-> <<>>, value |-> value]

NoFile == [ret |-> 0, exc |-> "none", emits |-> <<>>, skips |-> 0, warns |-> <<>>]

NoRun == [outcome |-> "none", pending |-> {}, checkpointed |-> {}]

(* lines 28-43 *)
StartSync ==
    /\ pc = "start"
    /\ start_bookmark' = get_bookmark(bookmark)
    /\ s3_files' = get_input_files_for_table(
                       store, strptime_with_tz(BookmarkOrDefault(get_bookmark(bookmark))))
    /\ files' = sorted(s3_files')
    /\ records_streamed' = 0
    /\ pc' = "loop"
    /\ UNCHANGED <<store, bookmark, run, inflight, emitted, log, skipped_files_count, prev>>
    /\ UNCHANGED mapvars

(* lines 51-53: sync_table_file is entered for the next object *)
OpenFile ==
    /\ pc = "loop"
    /\ files # <<>>
    /\ inflight' = sync_table_file(files[1].key, get_file_handle(store, files[1].key), "stream")
    /\ emitted' = 0
    /\ pc' = "file"
    /\ UNCHANGED <<store, bookmark, run, start_bookmark, s3_files, files, log,
                   skipped_files_count, records_streamed, prev>>
    /\ UNCHANGED mapvars

(* lines 267 / 277 / 316 / 321: one batch reaches the sink *)
EmitBatch ==
    /\ pc = "file"
    /\ emitted < Len(inflight.emits)
    /\ log' = Append(log, WriteRecords(files[1].key, inflight.emits[emitted + 1]))
    /\ emitted' = emitted + 1
    /\ UNCHANGED <<store, bookmark, pc, run, start_bookmark, s3_files, files, inflight,
                   skipped_files_count, records_streamed, prev>>
    /\ UNCHANGED mapvars

(* lines 52-53: sync_table_file returns *)
ReturnFile ==
    /\ pc = "file"
    /\ emitted = Len(inflight.emits)
    /\ inflight.exc = "none"
    /\ records_streamed' = records_streamed + inflight.ret
    /\ skipped_files_count' = skipped_files_count + inflight.skips
    /\ pc' = "bookmark"
    /\ UNCHANGED <<store, bookmark, run, start_bookmark, s3_files, files, inflight,
                   emitted, log, prev>>
    /\ UNCHANGED mapvars

(* lines 52-53: sync_table_file raises, and so does sync_stream *)
RaiseFile ==
    /\ pc = "file"
    /\ emitted = Len(inflight.emits)
    /\ inflight.exc # "none"
    /\ skipped_files_count' = skipped_files_count + inflight.skips
    /\ pc' = "aborted"
    /\ UNCHANGED <<store, bookmark, run, start_bookmark, s3_files, files, inflight,
                   emitted, log, records_streamed, prev>>
    /\ UNCHANGED mapvars

(* The bookmark written while the object's batches are still being emitted. *)
WriteBookmarkMidObject ==
    /\ pc \in {"file", "bookmark"}
    /\ bookmark' = isoformat(files[1].last_modified)
    /\ log' = Append(log, WriteState(files[1].key, isoformat(files[1].last_modified)))
    /\ UNCHANGED <<store, pc, files, inflight, emitted, run, start_bookmark, s3_files,
                   skipped_files_count, records_streamed, prev>>
    /\ UNCHANGED mapvars

(* The bookmark written only for an object that gave records. *)
WriteBookmarkIfRecords ==
    /\ pc = "bookmark"
    /\ bookmark' = IF inflight.ret > 0 THEN isoformat(files[1].last_modified) ELSE bookmark
    /\ log' = IF inflight.ret > 0
              THEN Append(log, WriteState(files[1].key, isoformat(files[1].last_modified)))
              ELSE log
    /\ files' = Tail(files)
    /\ inflight' = NoFile
    /\ emitted' = 0
    /\ pc' = "loop"
    /\ UNCHANGED <<store, run, start_bookmark, s3_files, skipped_files_count,
                   records_streamed, prev>>
    /\ UNCHANGED mapvars

(* lines 55-59: write_bookmark and write_state *)
WriteBookmark ==
    /\ pc = "bookmark"
    /\ bookmark' = isoformat(files[1].last_modified)
    /\ log' = Append(log, WriteState(files[1].key, isoformat(files[1].last_modified)))
    /\ files' = Tail(files)
    /\ inflight' = NoFile
    /\ emitted' = 0
    /\ pc' = "loop"
    /\ UNCHANGED <<store, run, start_bookmark, s3_files, skipped_files_count,
                   records_streamed, prev>>
    /\ UNCHANGED mapvars

(* lines 61-68 *)
Finish ==
    /\ pc = "loop"
    /\ files = <<>>
    /\ pc' = "done"
    /\ UNCHANGED <<store, bookmark, run, start_bookmark, s3_files, files, inflight,
                   emitted, log, skipped_files_count, records_streamed, prev>>
    /\ UNCHANGED mapvars

(* The process terminates somewhere in the loop. *)
Crash ==
    /\ pc \in {"loop", "file", "bookmark"}
    /\ pc' = "crashed"
    /\ UNCHANGED <<store, bookmark, run, start_bookmark, s3_files, files, inflight,
                   emitted, log, skipped_files_count, records_streamed, prev>>
    /\ UNCHANGED mapvars

(* A new process runs the sync again from the persisted state. *)
Restart ==
    /\ pc \in {"done", "aborted", "crashed"}
    /\ run < MaxRuns
    /\ run' = run + 1
    /\ prev' = [outcome |-> pc, pending |-> KeysOfSeq(files),
                checkpointed |-> Keys(s3_files) \ KeysOfSeq(files)]
    /\ pc' = "start"
    /\ start_bookmark' = None
    /\ s3_files' = {}
    /\ files' = <<>>
    /\ inflight' = NoFile
    /\ emitted' = 0
    /\ log' = <<>>
    /\ skipped_files_count' = 0
    /\ records_streamed' = 0
    /\ UNCHANGED <<store, bookmark>>
    /\ UNCHANGED mapvars

Next ==
    \/ StartSync
    \/ OpenFile
    \/ EmitBatch
    \/ ReturnFile
    \/ RaiseFile
    \/ WriteBookmark
    \/ Finish
    \/ Crash
    \/ Restart

-----------------------------------------------------------------------------
(* get_source_type_for_updatecol_map, lines 206-219. A dict is the sequence *)
(* of its items in insertion order; source_type_map and the result are      *)
(* functions of their keys.                                                 *)

EmptyMap == [c \in {} |-> ""]

(* A configuration without the key 'columns_to_update'. *)
NoConfig == [has_columns_to_update |-> FALSE, columns_to_update |-> <<>>]

(* list(column_updates.values()) *)
values(dict) == [i \in 1..Len(dict) |-> dict[i].value]

(* source_type_for_updatecol_map[column] = source_type_map[column] *)
SetItem(map, key, value) ==
    [c \in DOMAIN map \cup {key} |-> IF c = key THEN value ELSE map[c]]

(* lines 212-218: "for update in updates" from the i-th on *)
RECURSIVE updates_loop(_, _, _, _)
updates_loop(updates, i, types, map) ==
    IF i > Len(updates) THEN map
    ELSE LET update == updates[i]
         IN  IF update.columnUpdateType # "modify"
             THEN updates_loop(updates, i + 1, types, map)
             ELSE IF update.column \in DOMAIN types
             THEN updates_loop(updates, i + 1, types,
                               SetItem(map, update.column, types[update.column]))
             ELSE updates_loop(updates, i + 1, types, map)

get_source_type_for_updatecol_map(cfg, types) ==
    LET column_updates == IF cfg.has_columns_to_update THEN cfg.columns_to_update ELSE None
    IN  IF column_updates # None /\ Len(column_updates) > 0
        THEN updates_loop(values(column_updates)[1], 1, types, EmptyMap)
        ELSE EmptyMap

(* One call of get_source_type_for_updatecol_map. *)
CallGetSourceTypeMap ==
    /\ pc = "map"
    /\ source_type_for_updatecol_map' = get_source_type_for_updatecol_map(config, source_type_map)
    /\ pc' = "mapped"
    /\ UNCHANGED <<store, bookmark, run, start_bookmark, s3_files, files, inflight,
                   emitted, log, skipped_files_count, records_streamed, prev,
                   config, source_type_map>>

NextMap == CallGetSourceTypeMap

-----------------------------------------------------------------------------
(* The inputs: objects of the store. *)

Line(kind, v) == [kind |-> kind, v |-> v]

(* Plain bytes, read as lines. *)
Text(lines) ==
    [type |-> "text", lines |-> lines, header |-> "", name |-> <<>>, inner |-> <<>>,
     entries |-> <<>>]

(* A gzip member; header is "FNAME" when the header holds the original name, *)
(* "None" when the lookup of the name returns nothing and "AttributeError"  *)
(* when it raises that.                                                     *)
GzipWith(header, name, inner) ==
    [type |-> "gzip", lines |-> <<>>, header |-> header, name |-> name,
     inner |-> <<inner>>, entries |-> <<>>]

Gzip(name, inner) == GzipWith("FNAME", name, inner)

Zip(entries) ==
    [type |-> "zip", lines |-> <<>>, header |-> "", name |-> <<>>, inner |-> <<>>,
     entries |-> entries]

Entry(name, content) == [name |-> name, content |-> content]

File(key, content) == [key |-> key, content |-> content]

TwoRows == Text(<<Line("json", 1), Line("blank", 2), Line("json", 3)>>)

(* The objects a table's store is drawn from in Spec. *)
Catalogue ==
    { File(<<"B", ".", "C", "S", "V">>, TwoRows),
      File(<<"a", ".", "j", "s", "o", "n", "l">>, Text(<<Line("json", 1), Line("emptyobj", 2), Line("json", 3)>>)),
      File(<<"b", ".", "c", "s", "v">>, Text(<<Line("json", 1), Line("binary", 2), Line("json", 3)>>)),
      File(<<"c", ".", "p", "n", "g">>, TwoRows),
      File(<<"d", ".", "g", "z">>, GzipWith("None", <<>>, TwoRows)),
      File(<<"e", ".", "t", "x", "t">>, TwoRows),
      File(<<"f", ".", "g", "z">>, GzipWith("AttributeError", <<>>, TwoRows)),
      File(<<"g", ".", "j", "s", "o", "n", "l">>, Text(<<>>)) }

Stores ==
    UNION { { {[key |-> c.key, last_modified |-> tm[c], content |-> c.content] : c \in C}
              : tm \in [C -> 1..MaxTime] }
            : C \in {D \in SUBSET Catalogue : Cardinality(D) <= MaxObjects} }

Init ==
    /\ store \in Stores
    /\ bookmark \in {None, isoformat(1)}
    /\ pc = "start"
    /\ run = 1
    /\ start_bookmark = None
    /\ s3_files = {}
    /\ files = <<>>
    /\ inflight = NoFile
    /\ emitted = 0
    /\ log = <<>>
    /\ skipped_files_count = 0
    /\ records_streamed = 0
    /\ prev = NoRun
    /\ config = NoConfig
    /\ source_type_map = EmptyMap
    /\ source_type_for_updatecol_map = EmptyMap

Spec == Init /\ [][Next]_vars

-----------------------------------------------------------------------------
(* SpecFile: the store holds one object, drawn from files of every length  *)
(* up to MaxRows and from every shape the format resolution tells apart.   *)

Patterns == {"rows", "gaps", "broken", "badjson"}

KindAt(pattern, i, n) ==
    IF pattern = "gaps"
    THEN IF i % 3 = 0 THEN "blank" ELSE IF i % 5 = 0 THEN "emptyobj" ELSE "json"
    ELSE IF pattern = "broken" /\ i = n THEN "binary"
    ELSE IF pattern = "badjson" /\ i = n THEN "text"
    ELSE "json"

Rows(pattern, n) == Text([i \in 1..n |-> Line(KindAt(pattern, i, n), i)])

RowFiles ==
    { File(k, Rows(p, n)) : k \in {<<"x", ".", "c", "s", "v">>, <<"x", ".", "j", "s", "o", "n", "l">>}, p \in Patterns, n \in 0..MaxRows }

Shapes ==
    { File(<<"n", "o", "e", "x", "t">>, TwoRows),
      File(<<"x", ".">>, TwoRows),
      File(<<"x", ".", "p", "n", "g">>, TwoRows),
      File(<<"x", ".", "T", "X", "T">>, TwoRows),
      File(<<"x", ".", "c", "s", "v">>, Gzip(<<"d", ".", "c", "s", "v">>, TwoRows)),
      File(<<"x", ".", "j", "s", "o", "n", "l">>, Text(<<Line("blank", 1), Line("emptyobj", 2)>>)),
      File(<<"x", ".", "t", "a", "r", ".", "g", "z">>, Gzip(<<"x", ".", "t", "a", "r">>, TwoRows)),
      File(<<"x", ".", "g", "z">>, GzipWith("AttributeError", <<>>, TwoRows)),
      File(<<"x", ".", "g", "z">>, GzipWith("None", <<>>, TwoRows)),
      File(<<"x", ".", "g", "z">>, Gzip(<<"d", ".", "j", "s", "o", "n", "l">>, TwoRows)),
      File(<<"x", ".", "g", "z">>, Gzip(<<"d", ".", "j", "s", "o", "n", "l">>, Text(<<>>))),
      File(<<"x", ".", "g", "z">>, Gzip(<<"d", ".", "j", "s", "o", "n", "l">>, Text(<<Line("json", 1), Line("text", 2)>>))),
      File(<<"x", ".", "g", "z">>, Gzip(<<"d", ".", "c", "s", "v">>, TwoRows)),
      File(<<"x", ".", "g", "z">>, Gzip(<<"d", ".", "g", "z">>, Gzip(<<"d", ".", "j", "s", "o", "n", "l">>, TwoRows))),
      File(<<"x", ".", "g", "z">>, Gzip(<<"d", ".", "G", "Z">>, Gzip(<<"d", ".", "j", "s", "o", "n", "l">>, TwoRows))),
      File(<<"x", ".", "g", "z">>, Gzip(<<"d", ".", "z", "i", "p">>, Zip(<<Entry(<<"d", ".", "j", "s", "o", "n", "l">>, TwoRows)>>))),
      File(<<"x", ".", "g", "z">>, Gzip(<<"d", ".", "p", "n", "g">>, TwoRows)),
      File(<<"x", ".", "g", "z">>, Gzip(<<"n", "o", "e", "x", "t">>, TwoRows)),
      File(<<"x", ".", "g", "z">>, Gzip(<<"d", ".">>, TwoRows)),
      File(<<"x", ".", "z", "i", "p">>, Zip(<<Entry(<<"p", "1", ".", "j", "s", "o", "n", "l">>, TwoRows), Entry(<<"p", "2", ".", "g", "z", ".", "z", "i", "p">>, Zip(<<>>))>>)),
      File(<<"x", ".", "z", "i", "p">>, Zip(<<Entry(<<"p", "1", ".", "c", "s", "v">>, TwoRows), Entry(<<"p", "2", ".", "g", "z", ".", "z", "i", "p">>, Zip(<<>>))>>)),
      File(<<"x", ".", "z", "i", "p">>, Zip(<<Entry(<<"p", "1", ".", "j", "s", "o", "n", "l">>, TwoRows), Entry(<<"p", "2", ".", "p", "n", "g">>, TwoRows)>>)),
      File(<<"x", ".", "z", "i", "p">>, Zip(<<Entry(<<"p", "1", ".", "j", "s", "o", "n", "l">>, Text(<<>>)), Entry(<<"p", "2", ".", "g", "z">>, GzipWith("AttributeError", <<>>, TwoRows))>>)),
      File(<<"x", ".", "z", "i", "p">>, Zip(<<Entry(<<"p", "1", ".", "j", "s", "o", "n", "l">>, Text(<<>>)),
                          Entry(<<"p", "2", ".", "j", "s", "o", "n", "l">>, Text(<<Line("text", 1)>>)),
                          Entry(<<"p", "3", ".", "j", "s", "o", "n", "l">>, TwoRows)>>)),
      File(<<"x", ".", "z", "i", "p">>, Zip(<<Entry(<<"p", "1", ".", "g", "z">>, Gzip(<<"d", ".", "j", "s", "o", "n", "l">>, TwoRows)), Entry(<<"p", "2", ".", "j", "s", "o", "n", "l">>, TwoRows)>>)) }

FileInputs == RowFiles \cup Shapes

InitFile ==
    /\ \E f \in FileInputs :
           store = {[key |-> f.key, last_modified |-> 1, content |-> f.content]}
    /\ bookmark = None
    /\ pc = "start"
    /\ run = 1
    /\ start_bookmark = None
    /\ s3_files = {}
    /\ files = <<>>
    /\ inflight = NoFile
    /\ emitted = 0
    /\ log = <<>>
    /\ skipped_files_count = 0
    /\ records_streamed = 0
    /\ prev = NoRun
    /\ config = NoConfig
    /\ source_type_map = EmptyMap
    /\ source_type_for_updatecol_map = EmptyMap

SpecFile == InitFile /\ [][Next]_vars

-----------------------------------------------------------------------------
(* SpecMap: one call of get_source_type_for_updatecol_map, for every        *)
(* configuration of at most two entries of at most MaxUpdates rules each.   *)

Columns == {"c1", "c2"}

SourceTypes == {"integer", "string"}

UpdateTypes == {"modify", "delete"}

Tables == {"t1", "t2"}

Rule == [columnUpdateType : UpdateTypes, column : Columns]

RuleLists == UNION {[1..n -> Rule] : n \in 0..MaxUpdates}

Item(key, value) == [key |-> key, value |-> value]

(* The dicts over Tables, in every insertion order. *)
ColumnUpdates ==
    {<<>>}
    \cup {<<Item(t, u)>> : t \in Tables, u \in RuleLists}
    \cup UNION {{<<Item(t1, u1), Item(t2, u2)>> :
                     t2 \in Tables \ {t1}, u1 \in RuleLists, u2 \in RuleLists} : t1 \in Tables}

Configs ==
    {NoConfig} \cup {[has_columns_to_update |-> TRUE, columns_to_update |-> d] : d \in ColumnUpdates}

SourceTypeMaps == UNION {[D -> SourceTypes] : D \in SUBSET Columns}

InitMap ==
    /\ config \in Configs
    /\ source_type_map \in SourceTypeMaps
    /\ source_type_for_updatecol_map = EmptyMap
    /\ pc = "map"
    /\ store = {}
    /\ bookmark = None
    /\ run = 1
    /\ start_bookmark = None
    /\ s3_files = {}
    /\ files = <<>>
    /\ inflight = NoFile
    /\ emitted = 0
    /\ log = <<>>
    /\ skipped_files_count = 0
    /\ records_streamed = 0
    /\ prev = NoRun

SpecMap == InitMap /\ [][NextMap]_vars

-----------------------------------------------------------------------------
(* Notions the properties are stated with. *)

(* The enumerated object with the lexically greatest key. *)
GreatestKey(S) == CHOOSE f \in S : \A g \in S \ {f} : str_lt(g.key, f.key)

(* The timestamps this run has persisted, in order. *)
IsWriteState(e) == e.op = "write_state"

WrittenTimes ==
    LET w == SelectSeq(log, IsWriteState)
    IN  [i \in 1..Len(w) |-> strptime_with_tz(w[i].value)]

(* The batches of an object that have reached the sink in this run. *)
BatchesIn(events, key) ==
    LET IsBatch(e) == e.op = "write_records" /\ e.key = key
        b == SelectSeq(events, IsBatch)
    IN  [i \in 1..Len(b) |-> b[i].records]

-----------------------------------------------------------------------------
(* C1: when sync_stream completes and objects were enumerated, the persisted *)
(* bookmark is the last_modified of the enumerated object with the greatest *)
(* key; when none was enumerated the bookmark is the one the run found.     *)
BookmarkIsGreatestKey ==
    pc = "done" =>
        IF s3_files = {}
        THEN bookmark = start_bookmark
        ELSE bookmark = isoformat(GreatestKey(s3_files).last_modified)

(* A completed run whose greatest key is not the latest object. *)
GreatestKeyNotLatest ==
    /\ pc = "done"
    /\ s3_files # {}
    /\ \E f \in s3_files : f.last_modified > GreatestKey(s3_files).last_modified
    /\ bookmark = isoformat(GreatestKey(s3_files).last_modified)

(* C2: in a completed run every persisted timestamp is at least the one      *)
(* persisted before it and at least the bookmark the run started with.      *)
BookmarkNeverDecreases ==
    pc = "done" =>
        \A i \in 1..Len(WrittenTimes) :
            /\ WrittenTimes[i] >= strptime_with_tz(BookmarkOrDefault(start_bookmark))
            /\ i > 1 => WrittenTimes[i] >= WrittenTimes[i - 1]

(* C3: a run that follows a terminated run enumerates every object the       *)
(* terminated run had enumerated and not checkpointed, and none that it had *)
(* checkpointed.                                                            *)
CrashResumeLosesNothing ==
    (prev.outcome = "crashed" /\ pc # "start") =>
        /\ prev.pending \subseteq Keys(s3_files)
        /\ Keys(s3_files) \cap prev.checkpointed = {}

(* No batch of an object follows the object's bookmark in the log. *)
NoBatchAfterBookmark ==
    \A i \in 1..Len(log) : \A j \in 1..Len(log) :
        (i < j /\ log[i].op = "write_state" /\ log[j].op = "write_records")
            => log[j].key # log[i].key

(* C4: a bookmark is persisted only when sync_table_file has returned for    *)
(* the object and every batch of it is in the sink, and no batch of an      *)
(* object follows the object's bookmark.                                    *)
BookmarkOnlyAfterObject ==
    /\ [][(Len(log') > Len(log) /\ log'[Len(log')].op = "write_state") =>
            /\ pc = "bookmark"
            /\ emitted = Len(inflight.emits)
            /\ log'[Len(log')].key = files[1].key
            /\ BatchesIn(log, files[1].key) = inflight.emits]_vars
    /\ [][bookmark' # bookmark => pc = "bookmark"]_vars
    /\ []NoBatchAfterBookmark

(* A bookmark persisted after three batches, the last one partial. *)
BookmarkAfterPartialBatch ==
    /\ log # <<>>
    /\ log[Len(log)].op = "write_state"
    /\ Len(BatchesIn(log, log[Len(log)].key)) = 3
    /\ Len(BatchesIn(log, log[Len(log)].key)[3]) < BUFFER_SIZE

-----------------------------------------------------------------------------
(* The object in flight, and what its bytes are to the parser its           *)
(* extension selects.                                                       *)

InFlight == pc \in {"file", "bookmark"}

CurrentKey == files[1].key

CurrentContent == get_file_handle(store, CurrentKey)

ExtensionOf(key) == lower(split_last(key))

IsDelimited(key) == ExtensionOf(key) \in {csv_ext, txt_ext}

IsJsonLines(key) == ExtensionOf(key) = jsonl_ext

(* The parser the extension of a key selects. *)
ParserOf(key) ==
    IF IsDelimited(key) THEN "delimited" ELSE IF IsJsonLines(key) THEN "jsonl" ELSE "none"

(* A row the parser raises a decoding error on. *)
FailsToDecode(parser, line) ==
    \/ parser = "delimited" /\ line.kind = "binary"
    \/ parser = "jsonl" /\ line.kind \in {"binary", "text"}

(* A row the parser accepts. *)
IsAccepted(parser, line) ==
    \/ parser = "delimited" /\ line.kind \in {"json", "text", "emptyobj"}
    \/ parser = "jsonl" /\ line.kind = "json"

(* An object of a row format whose row iteration raises a decoding error. *)
IsMalformed(key, content) ==
    LET parser == ParserOf(key)
        lines == LinesOf(content)
    IN  /\ parser # "none"
        /\ \E i \in 1..Len(lines) : FailsToDecode(parser, lines[i])

(* An object of a row format read without error. *)
IsReadable(key, content) ==
    /\ ParserOf(key) # "none"
    /\ content.type = "text"
    /\ ~IsMalformed(key, content)

AcceptedRows(key, content) ==
    LET parser == ParserOf(key)
        Accepts(line) == IsAccepted(parser, line)
    IN  SelectSeq(content.lines, Accepts)

(* The object in flight was skipped as a whole: a skip warning was logged   *)
(* for it and it is no archive of several entries.                         *)
CurrentIsSkipped ==
    /\ InFlight
    /\ emitted = Len(inflight.emits)
    /\ inflight.exc = "none"
    /\ inflight.warns # <<>>
    /\ ExtensionOf(CurrentKey) # zip_ext

-----------------------------------------------------------------------------
(* C5: when sync_table_file returns for a skipped object, the counter of    *)
(* skipped objects has grown by exactly one.                               *)
SkippedCountsOnce ==
    [][(pc = "file" /\ pc' = "bookmark" /\ CurrentIsSkipped) =>
            skipped_files_count' = skipped_files_count + 1]_vars

(* C6: no batch of a skipped object reaches the sink. *)
SkippedEmitsNothing ==
    CurrentIsSkipped => BatchesIn(log, CurrentKey) = <<>>

(* The batch sizes stated for n accepted rows. *)
ExpectedSizes(n) ==
    LET count == (n + BUFFER_SIZE - 1) \div BUFFER_SIZE
    IN  [i \in 1..count |-> IF i < count THEN BUFFER_SIZE ELSE n - BUFFER_SIZE * (count - 1)]

SizesOf(batches) == [i \in 1..Len(batches) |-> Len(batches[i])]

(* C7: an object read without error that yields N accepted rows reaches the *)
(* sink as ceil(N / BUFFER_SIZE) batches, all of BUFFER_SIZE records but   *)
(* the last, which holds the rest and is never empty.                      *)
BatchesOfCapacity ==
    (pc = "bookmark" /\ IsReadable(CurrentKey, CurrentContent)) =>
        LET sizes == SizesOf(BatchesIn(log, CurrentKey))
            n == Len(AcceptedRows(CurrentKey, CurrentContent))
        IN  /\ sizes = ExpectedSizes(n)
            /\ \A i \in 1..Len(sizes) : sizes[i] > 0 /\ sizes[i] <= BUFFER_SIZE

(* 250 rows emitted as batches of 100, 100 and 50. *)
TwoFullBatchesAndHalf ==
    /\ pc = "bookmark"
    /\ IsReadable(CurrentKey, CurrentContent)
    /\ Len(AcceptedRows(CurrentKey, CurrentContent)) = 250
    /\ SizesOf(BatchesIn(log, CurrentKey)) = <<100, 100, 50>>

(* Batches put end to end. *)
RECURSIVE Flatten(_)
Flatten(batches) ==
    IF batches = <<>> THEN <<>> ELSE Head(batches) \o Flatten(Tail(batches))

(* C8: the batches of an object read without error, put end to end, are the *)
(* transformed accepted rows in the order of the file.                     *)
BatchesAreTheRowsInOrder ==
    (pc = "bookmark" /\ IsReadable(CurrentKey, CurrentContent)) =>
        LET rows == AcceptedRows(CurrentKey, CurrentContent)
        IN  Flatten(BatchesIn(log, CurrentKey)) = [i \in 1..Len(rows) |-> transform(rows[i].v)]

(* Line-delimited JSON with blank lines and empty objects, over two batches. *)
RowsSkippedAcrossBatches ==
    /\ pc = "bookmark"
    /\ IsJsonLines(CurrentKey)
    /\ IsReadable(CurrentKey, CurrentContent)
    /\ \E i \in 1..Len(CurrentContent.lines) : CurrentContent.lines[i].kind = "blank"
    /\ \E i \in 1..Len(CurrentContent.lines) : CurrentContent.lines[i].kind = "emptyobj"
    /\ Len(BatchesIn(log, CurrentKey)) >= 2

(* C9: a run that follows a completed run, the store unchanged, hands        *)
(* nothing to the sink and leaves the bookmark as it found it.              *)
RerunIsIdempotent ==
    (prev.outcome = "done" /\ pc # "start") =>
        /\ \A i \in 1..Len(log) : log[i].op # "write_records"
        /\ \A i \in 1..Len(log) : log[i].op # "write_state"
        /\ bookmark = start_bookmark

(* The batches and the bookmark of one object, and of a sequence of objects. *)
EventsOf(f) ==
    LET r == sync_table_file(f.key, get_file_handle(store, f.key), "stream")
    IN  [i \in 1..Len(r.emits) |-> WriteRecords(f.key, r.emits[i])]
            \o <<WriteState(f.key, isoformat(f.last_modified))>>

RECURSIVE EventsOfAll(_)
EventsOfAll(q) == IF q = <<>> THEN <<>> ELSE EventsOf(Head(q)) \o EventsOfAll(Tail(q))

(* The events of the objects after a key. *)
After(events, key) ==
    LET IsLater(e) == str_lt(key, e.key)
    IN  SelectSeq(events, IsLater)

(* C10: a decoding error in the rows of an object does not end the sync:     *)
(* sync_table_file returns, and the objects after it in key order reach the *)
(* sink and the bookmark as they do when the malformed object is not there. *)
MalformedDoesNotAbort ==
    /\ (pc \in {"file", "bookmark", "aborted"} /\ files # <<>>
            /\ IsMalformed(CurrentKey, CurrentContent))
        => (pc # "aborted" /\ inflight.exc = "none")
    /\ inflight.exc \notin {"UnicodeDecodeError", "JSONDecodeError"}
    /\ pc = "done" =>
        \A m \in s3_files :
            IsMalformed(m.key, get_file_handle(store, m.key)) =>
                After(log, m.key) = After(EventsOfAll(sorted(s3_files \ {m})), m.key)

(* A completed run with a malformed object and records of a later object. *)
LaterObjectAfterMalformed ==
    /\ pc = "done"
    /\ \E m \in s3_files :
           /\ IsMalformed(m.key, get_file_handle(store, m.key))
           /\ \E i \in 1..Len(log) :
                  log[i].op = "write_records" /\ str_lt(m.key, log[i].key)

-----------------------------------------------------------------------------
(* Archives. *)

EntryExtension(decompressed_file) == lower(split_last(decompressed_file.name))

(* An entry whose own extension is a compressed or archive format. *)
IsNestedEntry(decompressed_file) == EntryExtension(decompressed_file) \in {gz_ext, zip_ext}

IsOtherEntry(decompressed_file) == ~IsNestedEntry(decompressed_file)

(* The object in flight is a zip archive. *)
CurrentIsZip ==
    /\ files # <<>>
    /\ ExtensionOf(CurrentKey) = zip_ext
    /\ CurrentContent.type = "zip"

(* C11: every entry of a zip whose own extension is gz or zip yields no      *)
(* records and adds exactly one to the counter of skipped objects, and the  *)
(* other entries of the zip yield what they yield without it.               *)
NestedEntriesSkippedAndCounted ==
    (pc = "bookmark" /\ CurrentIsZip) =>
        LET entries == CurrentContent.entries
            nested == SelectSeq(entries, IsNestedEntry)
            others == sync_table_file(
                          CurrentKey,
                          [CurrentContent EXCEPT !.entries = SelectSeq(entries, IsOtherEntry)],
                          "stream")
        IN  /\ inflight.emits = others.emits
            /\ inflight.ret = others.ret
            /\ inflight.skips = others.skips + Len(nested)

-----------------------------------------------------------------------------
(* Gzip objects. *)

(* The object is read by sync_gz_file as a gzip member. *)
IsGzipObject(key, content) ==
    /\ ExtensionOf(key) = gz_ext
    /\ ~endswith(key, <<".", "t", "a", "r", ".", "g", "z">>)
    /\ content.type = "gzip"

(* The header gives no original name: the lookup raises AttributeError or   *)
(* returns an empty name or None.                                           *)
HasNoOriginalName(content) ==
    content.header = "AttributeError" \/ content.name = <<>>

(* C12: a gzip object without a recoverable original name is skipped:        *)
(* sync_table_file returns 0 for it, nothing is raised, nothing is emitted, *)
(* the counter of skipped objects grows by one and the sync goes on.        *)
GzipWithoutNameIsSkipped ==
    (pc \in {"file", "bookmark", "aborted"} /\ files # <<>>
        /\ IsGzipObject(CurrentKey, CurrentContent)
        /\ HasNoOriginalName(CurrentContent))
    => /\ pc # "aborted"
       /\ inflight.exc = "none"
       /\ inflight.ret = 0
       /\ inflight.emits = <<>>
       /\ inflight.skips = 1

(* A gzip member that sync_gz_file can make nothing of: the lookup of the   *)
(* name raises nothing and gives no name (line 181).                        *)
IsCorrupt(key, content) ==
    /\ IsGzipObject(key, content)
    /\ content.header # "AttributeError"
    /\ content.name = <<>>

(* The timestamp last persisted: by this run, or the one the run found. *)
LastCheckpoint ==
    IF WrittenTimes = <<>> THEN start_bookmark
    ELSE isoformat(WrittenTimes[Len(WrittenTimes)])

(* C13: the failure on a structurally corrupt object leaves sync_table_file  *)
(* and sync_stream as an exception: the sync ends there, with no bookmark   *)
(* for the object, no event of it or of a later object, and the persisted  *)
(* bookmark that of the last checkpoint before it.                          *)
FatalAbortsTheSync ==
    /\ []((pc \in {"file", "bookmark", "aborted"} /\ files # <<>>
               /\ IsCorrupt(CurrentKey, CurrentContent))
           => /\ pc # "bookmark"
              /\ inflight.exc = "Exception"
              /\ inflight.emits = <<>>)
    /\ [](pc = "aborted"
           => /\ bookmark = LastCheckpoint
              /\ \A i \in 1..Len(log) : str_lt(log[i].key, CurrentKey)
              /\ \A f \in s3_files :
                     (f.key = CurrentKey \/ str_lt(CurrentKey, f.key)) => f.key \in KeysOfSeq(files))
    /\ [][(pc = "file" /\ IsCorrupt(CurrentKey, CurrentContent))
             => (pc' \in {"aborted", "crashed"} /\ bookmark' = bookmark /\ log' = log)]_vars
    /\ [][pc = "aborted" => (pc' = "start" /\ run' = run + 1 /\ bookmark' = bookmark)]_vars

(* The sync aborted on a corrupt gzip after an earlier object was           *)
(* checkpointed with another timestamp.                                     *)
AbortedAfterCheckpoint ==
    /\ pc = "aborted"
    /\ IsCorrupt(CurrentKey, CurrentContent)
    /\ inflight.exc = "Exception"
    /\ WrittenTimes # <<>>
    /\ bookmark # isoformat(files[1].last_modified)
    /\ bookmark = LastCheckpoint

(* The extensions of the terminal formats. *)
TerminalExtensions == {csv_ext, txt_ext, jsonl_ext}

(* A gzip member whose header names a file of a terminal format. *)
IsGzipOfTerminal(key, content) ==
    /\ IsGzipObject(key, content)
    /\ content.header = "FNAME"
    /\ lower(split_last(content.name)) \in TerminalExtensions
    /\ ~WithoutExtension(content.name, lower(split_last(content.name)))

(* C14: a gzip object whose header names a csv, txt or jsonl file gives the  *)
(* batches, the record count, the change of the skipped counter and the     *)
(* outcome that the named file gives as an object of its own with the       *)
(* decompressed bytes.                                                      *)
GzipIsTransparent ==
    (pc \in {"file", "bookmark", "aborted"} /\ files # <<>>
        /\ IsGzipOfTerminal(CurrentKey, CurrentContent))
    => LET direct == sync_table_file(CurrentContent.name, CurrentContent.inner[1], "stream")
       IN  /\ inflight.emits = direct.emits
           /\ inflight.ret = direct.ret
           /\ inflight.skips = direct.skips
           /\ inflight.exc = direct.exc

-----------------------------------------------------------------------------
(* The order of processing. *)

(* The enumerated objects whose key is less than a key. *)
EnumeratedBefore(key) == {f \in s3_files : str_lt(f.key, key)}

(* The events of one object of the log. *)
Of(events, key) ==
    LET IsOfKey(e) == e.key = key
    IN  SelectSeq(events, IsOfKey)

(* C15: the enumerated objects are processed one at a time in ascending key *)
(* order: when an object is resolved, every enumerated object of a lesser   *)
(* key has all its batches in the sink and its bookmark persisted after     *)
(* them, and nothing of an object of a greater key has happened; the events *)
(* of the log are in key order.                                             *)
ProcessedInKeyOrder ==
    /\ [](\A i \in 1..Len(log) : \A j \in 1..Len(log) :
              i < j => ~str_lt(log[j].key, log[i].key))
    /\ []((InFlight /\ files # <<>>) =>
              /\ \A f \in EnumeratedBefore(CurrentKey) : Of(log, f.key) = EventsOf(f)
              /\ \A i \in 1..Len(log) : ~str_lt(CurrentKey, log[i].key))
    /\ [][(pc = "loop" /\ pc' = "file") =>
              /\ \A f \in EnumeratedBefore(files[1].key) : Of(log, f.key) = EventsOf(f)
              /\ \A f \in s3_files : f.key \in KeysOfSeq(files) \/ str_lt(f.key, files[1].key)
              /\ (log # <<>> => bookmark = log[Len(log)].value)]_vars

(* Two objects processed, the one of the lesser key modified last. *)
KeyOrderAgainstTime ==
    /\ pc = "done"
    /\ \E f \in s3_files : \E g \in s3_files :
           /\ str_lt(f.key, g.key)
           /\ f.last_modified > g.last_modified
           /\ \E i \in 1..Len(log) : \E j \in 1..Len(log) :
                  /\ i < j
                  /\ log[i] = WriteState(f.key, isoformat(f.last_modified))
                  /\ log[j].op = "write_records" /\ log[j].key = g.key

-----------------------------------------------------------------------------
(* Unsupported extensions. *)

SupportedExtensions == {zip_ext, gz_ext, csv_ext, txt_ext, jsonl_ext}

(* A name with an extension that is none of zip, gz, csv, txt, jsonl. *)
IsUnsupportedName(name) ==
    /\ ~WithoutExtension(name, lower(split_last(name)))
    /\ lower(split_last(name)) \notin SupportedExtensions

(* The object in flight has an unsupported extension, its own or the one of *)
(* the name in its gzip header.                                             *)
CurrentIsUnsupported ==
    /\ files # <<>>
    /\ \/ IsUnsupportedName(CurrentKey)
       \/ /\ IsGzipObject(CurrentKey, CurrentContent)
          /\ CurrentContent.header = "FNAME"
          /\ IsUnsupportedName(CurrentContent.name)

(* C16: an object of an unsupported extension, at the top level or named by *)
(* a gzip header, yields no record and adds exactly one to the counter of   *)
(* skipped objects.                                                         *)
UnsupportedIsSkippedAndCounted ==
    (pc \in {"file", "bookmark", "aborted"} /\ CurrentIsUnsupported)
    => /\ inflight.exc = "none"
       /\ inflight.ret = 0
       /\ inflight.emits = <<>>
       /\ inflight.skips = 1

(* A gzip member whose header names a file ending in .gz, in any letter case. *)
IsNestedGzip(key, content) ==
    /\ IsGzipObject(key, content)
    /\ content.header = "FNAME"
    /\ endswith(lower(content.name), <<".", "g", "z">>)

(* C17: a gzip whose header names a file ending in gz, in any letter case,  *)
(* is skipped and counted once; it is not decompressed a second time, so    *)
(* nothing of what it wraps is resolved or emitted.                         *)
NestedGzipIsSkippedOnce ==
    (pc \in {"file", "bookmark", "aborted"} /\ files # <<>>
        /\ IsNestedGzip(CurrentKey, CurrentContent))
    => /\ inflight.exc = "none"
       /\ inflight.ret = 0
       /\ inflight.emits = <<>>
       /\ inflight.skips = 1
       /\ inflight.warns = <<"nested_compression">>

-----------------------------------------------------------------------------
(* The map of source types of the updated columns. *)

(* The rules of every entry of config['columns_to_update']. *)
ConfiguredRules ==
    IF config.has_columns_to_update
    THEN UNION {{config.columns_to_update[i].value[j] :
                     j \in 1..Len(config.columns_to_update[i].value)} :
                i \in 1..Len(config.columns_to_update)}
    ELSE {}

(* The columns some configured rule modifies and the schema has a type for. *)
ModifiedColumns ==
    {c \in DOMAIN source_type_map :
        \E r \in ConfiguredRules : r.columnUpdateType = "modify" /\ r.column = c}

(* C18: the keys of the map returned are the columns that a rule of any      *)
(* entry of config['columns_to_update'] modifies and that source_type_map   *)
(* has; each maps to its source type; without configured rules the map is   *)
(* empty.                                                                    *)
MapCoversEveryEntry ==
    pc = "mapped" =>
        /\ DOMAIN source_type_for_updatecol_map = ModifiedColumns
        /\ \A c \in DOMAIN source_type_for_updatecol_map :
               source_type_for_updatecol_map[c] = source_type_map[c]
        /\ (ConfiguredRules = {} => source_type_for_updatecol_map = EmptyMap)

-----------------------------------------------------------------------------
(* The record total. *)

(* The number of records in the batches of a log. *)
RECURSIVE RecordsIn(_)
RecordsIn(events) ==
    IF events = <<>> THEN 0
    ELSE Len(Head(events).records) + RecordsIn(Tail(events))

(* C19: the total that sync_stream returns is the number of records handed  *)
(* to the sink during the sync, whatever the objects, those skipped after a *)
(* decoding error part-way through their rows included.                     *)
TotalIsWhatTheSinkGot ==
    pc = "done" => records_streamed = RecordsIn(log)

-----------------------------------------------------------------------------
(* Skipped objects and the bookmark. *)

(* An object that sync_table_file skips: it returns 0 with a warning and    *)
(* nothing is emitted.                                                      *)
IsSkippedObject(o) ==
    LET r == sync_table_file(o.key, o.content, "stream")
    IN  r.exc = "none" /\ r.ret = 0 /\ r.emits = <<>> /\ r.warns # <<>>

(* The write_state of an enumerated object. *)
CheckpointOf(f) == WriteState(f.key, isoformat(f.last_modified))

(* C20: whenever sync_table_file returns for an object, skipped or not, the *)
(* bookmark is next set to the object's last_modified and persisted; a      *)
(* later sync does not enumerate a skipped object whose last_modified is    *)
(* not after the bookmark it starts from.                                   *)
SkippedAdvancesBookmark ==
    /\ []((pc = "loop" /\ log # <<>>) =>
              /\ log[Len(log)].op = "write_state"
              /\ bookmark = log[Len(log)].value)
    /\ []((pc \in {"loop", "done"}) =>
              \A f \in s3_files :
                  f.key \notin KeysOfSeq(files)
                      => \E i \in 1..Len(log) : log[i] = CheckpointOf(f))
    /\ [][(pc = "bookmark" /\ pc' = "loop") =>
              /\ bookmark' = isoformat(files[1].last_modified)
              /\ log' = Append(log, CheckpointOf(files[1]))]_vars
    /\ []((prev.outcome = "done" /\ pc # "start") =>
              \A o \in store :
                  (IsSkippedObject(o)
                      /\ o.last_modified <= strptime_with_tz(BookmarkOrDefault(start_bookmark)))
                  => o.key \notin Keys(s3_files))

(* A sync that follows one which skipped an object and left the bookmark at *)
(* that object's last_modified: the object is not enumerated again.         *)
SkippedObjectNotEnumeratedAgain ==
    /\ prev.outcome = "done"
    /\ pc = "done"
    /\ \E o \in store :
           /\ IsSkippedObject(o)
           /\ o.key \in prev.checkpointed
           /\ start_bookmark = isoformat(o.last_modified)
           /\ o.key \notin Keys(s3_files)

====
